---- MODULE Spec2Model ----
(***************************************************************************)
(* Model of pymake/dag.py: Node, DirectedAcyclicGraph.toposort, the two    *)
(* graph builders (get_f_nodelist, order_c_source_files) and the callers   *)
(* order_source_files / order_c_source_files / __main__.                   *)
(*                                                                         *)
(* A Node is identified by its position in nodelist (Python object         *)
(* identity); its name is the file path.  Strings are sequences of         *)
(* one-character strings, so that upper(), split(), replace(), basename()  *)
(* and splitext() are computed character by character.                     *)
(***************************************************************************)
EXTENDS Integers, Sequences, FiniteSets, TLC

\* ------------------------------------------------------------------ bounds
MaxNodes == 4   \* Nodes built by hand in SortSpec (the __main__ fixture has 4)
MaxEdges == 4   \* add_dependency calls that add an edge in SortSpec
MaxCalls == 2   \* toposort calls on one DirectedAcyclicGraph in SortSpec
MaxFiles == 2   \* length of srcfiles in Spec
MaxLines == 2   \* lines of one source file in Spec

\* ----------------------------------------------------------- Python helpers
Range(q) == {q[i] : i \in DOMAIN q}

Max(S) == CHOOSE x \in S : \A y \in S : y <= x

\* x in list
Contains(q, x) == \E i \in DOMAIN q : q[i] = x

\* list.remove(x): drops the first occurrence of x
ListRemove(q, x) ==
  LET k == CHOOSE i \in DOMAIN q : q[i] = x /\ \A j \in 1..(i - 1) : q[j] /= x
  IN  [i \in 1..(Len(q) - 1) |-> IF i < k THEN q[i] ELSE q[i + 1]]

\* Node.add_dependency: append d unless already in the list
add_dependency(deps, d) == IF Contains(deps, d) THEN deps ELSE Append(deps, d)

LowerCase == <<"a","b","c","d","e","f","g","h","i","j","k","l","m",
               "n","o","p","q","r","s","t","u","v","w","x","y","z">>
UpperCase == <<"A","B","C","D","E","F","G","H","I","J","K","L","M",
               "N","O","P","Q","R","S","T","U","V","W","X","Y","Z">>

\* str.upper() on one character
UpperChar(c) ==
  IF \E i \in DOMAIN LowerCase : LowerCase[i] = c
  THEN UpperCase[CHOOSE i \in DOMAIN LowerCase : LowerCase[i] = c]
  ELSE c

\* str.upper()
Upper(str) == [i \in DOMAIN str |-> UpperChar(str[i])]

IsSpace(c) == c \in {" ", "\t"}

\* str.rfind(c), 1-based; 0 when c does not occur
RFind(str, c) ==
  IF \E i \in DOMAIN str : str[i] = c
  THEN Max({i \in DOMAIN str : str[i] = c})
  ELSE 0

\* str.find(c), 1-based; 0 when c does not occur
Find(str, c) ==
  IF \E i \in DOMAIN str : str[i] = c
  THEN CHOOSE i \in DOMAIN str : str[i] = c /\ \A j \in 1..(i - 1) : str[j] /= c
  ELSE 0

\* line.strip().split(): the maximal runs of non-whitespace characters
RECURSIVE SplitFrom(_, _, _, _)
SplitFrom(line, i, cur, acc) ==
  IF i > Len(line)
  THEN IF cur = <<>> THEN acc ELSE Append(acc, cur)
  ELSE IF IsSpace(line[i])
       THEN SplitFrom(line, i + 1, <<>>, IF cur = <<>> THEN acc ELSE Append(acc, cur))
       ELSE SplitFrom(line, i + 1, Append(cur, line[i]), acc)

Split(line) == SplitFrom(line, 1, <<>>, <<>>)

\* token.split(',')[0]
BeforeComma(tok) ==
  IF Find(tok, ",") = 0 THEN tok ELSE SubSeq(tok, 1, Find(tok, ",") - 1)

IsDelim(c) == c \in {"\"", "'", "<", ">"}

\* token.replace('"','').replace("'","").replace('<','').replace('>','')
StripDelims(tok) == SelectSeq(tok, LAMBDA c : ~IsDelim(c))

\* os.path.basename (posix): what follows the last '/'
Basename(p) == SubSeq(p, RFind(p, "/") + 1, Len(p))

\* os.path.splitext(p)[0] (posix): p up to its last dot, when that dot comes
\* after the last '/' and after a character of the file name that is no dot
SplitextRoot(p) ==
  LET sepIndex == RFind(p, "/")
      dotIndex == RFind(p, ".")
  IN  IF dotIndex > sepIndex
         /\ \E k \in (sepIndex + 1)..(dotIndex - 1) : p[k] /= "."
      THEN SubSeq(p, 1, dotIndex - 1)
      ELSE p

\* ------------------------------------------- keywords, file paths and lines
\* 'MODULE' (line 104)
KwModule == <<"M","O","D","U","L","E">>

\* 'USE' (line 107)
KwUse == <<"U","S","E">>

\* '#INCLUDE' (line 182)
KwInclude == <<"#","I","N","C","L","U","D","E">>

\* line 'module ma'
FLine1 == <<"m","o","d","u","l","e"," ","m","a">>

\* line '  MODULE Mb'
FLine2 == <<" "," ","M","O","D","U","L","E"," ","M","b">>

\* line 'use ma'
FLine3 == <<"u","s","e"," ","m","a">>

\* line 'Use MB, only: x'
FLine4 == <<"U","s","e"," ","M","B",","," ","o","n","l","y",":"," ","x">>

\* line 'module'
FLine5 == <<"m","o","d","u","l","e">>

\* line ' USE '
FLine6 == <<" ","U","S","E"," ">>

\* line '  '
FLine7 == <<" "," ">>

\* line #include "foo.h"
CLine1 == <<"#","i","n","c","l","u","d","e"," ","\"","f","o","o",".","h","\"">>

\* line #include "inc/foo.h"
CLine2 == <<"#","i","n","c","l","u","d","e"," ","\"","i","n","c","/","f","o","o",".","h","\"">>

\* line #INCLUDE <Bar.h>
CLine3 == <<"#","I","N","C","L","U","D","E"," ","<","B","a","r",".","h",">">>

\* line #include
CLine4 == <<"#","i","n","c","l","u","d","e">>

\* line int x;
CLine5 == <<"i","n","t"," ","x",";">>

\* path a.f
FPath1 == <<"a",".","f">>

\* path src/b.f90
FPath2 == <<"s","r","c","/","b",".","f","9","0">>

\* path src/Foo.cpp
CPath1 == <<"s","r","c","/","F","o","o",".","c","p","p">>

\* path bar.c
CPath2 == <<"b","a","r",".","c">>

\* ------------------------------------------------------------------- state
VARIABLES
  pc,            \* position of the caller: "build", "scan", "lines", "link",
                 \* "sort", "loop", "returned", "ordered", "raised"
  dialect,       \* "f": order_source_files, "c": order_c_source_files,
                 \* "n": Nodes built by hand as in __main__
  srcfiles,      \* the input list of file paths
  nodelist,      \* nodelist[i]: Node.name of the i-th Node
  dependencies,  \* dependencies[i]: Node.dependencies of the i-th Node
  module_dict,   \* provided symbol -> file path
  sourcefile_module_dict, \* file path -> list of required symbols
  nodedict,      \* file path -> Node
  provided,      \* provided[i]: symbols the scan of srcfiles[i] registered
  modulelist,    \* the required symbols of the file being read
  lineno,        \* lines read of the file being read
  linked,        \* Nodes the second loop of the builder has gone through
  l,             \* toposort's output list
  s,             \* toposort's frontier set
  error,         \* the exception that ended the run, "" when none
  osrcfiles,     \* the ordered file paths handed to the caller
  calls,         \* toposort calls so far
  deps0,         \* dependencies at the entry of the current toposort call
  pops           \* frontier removals of the current toposort call

builderVars == <<module_dict, sourcefile_module_dict, nodedict, provided,
                 modulelist, lineno, linked>>

sortVars == <<l, s, calls, deps0, pops>>

vars == <<pc, dialect, srcfiles, nodelist, dependencies, builderVars, sortVars,
          error, osrcfiles>>

Nodes == DOMAIN nodelist

NoRootsError == "All nodes have dependencies"
CycleError == "Graph has at least one cycle"
IndexError == "list index out of range"

EmptyMap == [x \in {} |-> <<>>]

\* dict[key] = value
Put(dict, key, value) ==
  [x \in DOMAIN dict \cup {key} |-> IF x = key THEN value ELSE dict[x]]

\* ---------------------------------------------------------------- toposort
\* lines 50-53: the Nodes with no dependencies
Roots(deps) == {n \in DOMAIN deps : Len(deps[n]) = 0}

\* s.pop() of n: the frontier without n
PopKeep(frontier, n) == frontier

Pop(frontier, n) == frontier \ {n}

\* line 65, with the test of line 64
RemoveKeep(deps, n) == deps

RemoveEdge(deps, n) == IF Contains(deps, n) THEN ListRemove(deps, n) ELSE deps

\* lines 54-57: the frontier is empty, the no-roots error is raised
NoRootsSkip(frontier) == FALSE

NoRoots(frontier) == Cardinality(frontier) = 0

\* lines 70-72: some Node of the output retains a dependency
CycleFound(out, deps) == \E i \in DOMAIN out : Len(deps[out[i]]) > 0

\* lines 47-57
ToposortBegin ==
  /\ pc = "sort"
  /\ l' = <<>>
  /\ s' = Roots(dependencies)
  /\ calls' = calls + 1
  /\ deps0' = dependencies
  /\ pops' = 0
  /\ IF NoRoots(Roots(dependencies))
     THEN pc' = "raised" /\ error' = NoRootsError
     ELSE pc' = "loop" /\ error' = ""
  /\ UNCHANGED <<dialect, srcfiles, nodelist, dependencies, builderVars, osrcfiles>>

\* lines 60-67: one iteration of the while loop
ToposortPop ==
  /\ pc = "loop"
  /\ \E n \in s :
       LET newdeps == [m \in Nodes |-> RemoveEdge(dependencies[m], n)]
           freed == {m \in Nodes : Contains(dependencies[m], n)
                                    /\ Len(newdeps[m]) = 0}
       IN  /\ l' = Append(l, n)
           /\ dependencies' = newdeps
           /\ s' = Pop(s, n) \cup freed
  /\ pops' = pops + 1
  /\ UNCHANGED <<pc, dialect, srcfiles, nodelist, builderVars, error, osrcfiles,
                 calls, deps0>>

\* lines 60, 69-74: the loop ends, the output is checked and returned
ToposortEnd ==
  /\ pc = "loop"
  /\ Cardinality(s) = 0
  /\ IF CycleFound(l, dependencies)
     THEN pc' = "raised" /\ error' = CycleError
     ELSE pc' = "returned" /\ error' = ""
  /\ UNCHANGED <<dialect, srcfiles, nodelist, dependencies, builderVars, sortVars,
                 osrcfiles>>

\* ------------------------------------------------ Nodes built by hand
NodeNames == <<<<"a">>, <<"b">>, <<"c">>, <<"d">>, <<"e">>, <<"f">>>>

EdgeCount == LET RECURSIVE Sum(_)
                 Sum(k) == IF k = 0 THEN 0 ELSE Len(dependencies[k]) + Sum(k - 1)
             IN  Sum(Len(nodelist))

\* lines 221-224, 231: k Nodes, no dependencies yet
SortInit ==
  /\ pc = "build"
  /\ dialect = "n"
  /\ srcfiles = <<>>
  /\ \E k \in 0..MaxNodes : nodelist = [i \in 1..k |-> NodeNames[i]]
  /\ dependencies = [i \in DOMAIN nodelist |-> <<>>]
  /\ module_dict = EmptyMap
  /\ sourcefile_module_dict = EmptyMap
  /\ nodedict = EmptyMap
  /\ provided = <<>>
  /\ modulelist = <<>>
  /\ lineno = 0
  /\ linked = 0
  /\ l = <<>>
  /\ s = {}
  /\ error = ""
  /\ osrcfiles = <<>>
  /\ calls = 0
  /\ deps0 = dependencies
  /\ pops = 0

\* lines 226-229: a.add_dependency(d), d another Node than a (as in __main__,
\* and as lines 125 and 206 have it for the builders)
AddDependency ==
  /\ pc = "build"
  /\ EdgeCount < MaxEdges
  /\ \E a \in Nodes : \E d \in Nodes \ {a} :
       dependencies' = [dependencies EXCEPT ![a] = add_dependency(@, d)]
  /\ UNCHANGED <<pc, dialect, srcfiles, nodelist, builderVars, sortVars, error,
                 osrcfiles>>

\* lines 233-234: dag = DirectedAcyclicGraph(nodelist); dag.toposort()
GetDag ==
  /\ pc = "build"
  /\ pc' = "sort"
  /\ UNCHANGED <<dialect, srcfiles, nodelist, dependencies, builderVars, sortVars,
                 error, osrcfiles>>

\* toposort is called again on the same DirectedAcyclicGraph
SortAgain ==
  /\ dialect = "n"
  /\ pc \in {"returned", "raised"}
  /\ calls < MaxCalls
  /\ pc' = "sort"
  /\ UNCHANGED <<dialect, srcfiles, nodelist, dependencies, builderVars, sortVars,
                 error, osrcfiles>>

SortNext ==
  \/ AddDependency
  \/ GetDag
  \/ ToposortBegin
  \/ ToposortPop
  \/ ToposortEnd
  \/ SortAgain

SortSpec == SortInit /\ [][SortNext]_vars

\* ------------------------------------------------------- the graph builders
FPaths == {FPath1, FPath2}

CPaths == {CPath1, CPath2}

FLines == {FLine1, FLine2, FLine3, FLine4, FLine5, FLine6, FLine7}

CLines == {CLine1, CLine2, CLine3, CLine4, CLine5}

SeqsUpTo(S, k) == UNION {[1..m -> S] : m \in 0..k}

\* the lines f.read().decode().splitlines() may yield (lines 96-97, 174-175)
Lines(d) == IF d = "f" THEN FLines ELSE CLines

\* module_dict[modulename] = srcfile (lines 106, 188): the last writer wins
RegisterFirst(md, modulename, srcfile) ==
  IF modulename \in DOMAIN md THEN md ELSE Put(md, modulename, srcfile)

Register(md, modulename, srcfile) == Put(md, modulename, srcfile)

\* line 187: the include name without its extension is the file's base name
\* without its extension, upper-cased
IsOwnHeader(modulename, srcfile) ==
  SplitextRoot(modulename) = Upper(SplitextRoot(Basename(srcfile)))

ScanResult(md, ml, pr, raised) ==
  [module_dict |-> md, modulelist |-> ml, provided |-> pr, raised |-> raised]

\* lines 101-110: one line of a Fortran file.  md: module_dict, ml: modulelist,
\* pr: the symbols line 106 has registered for this file
ScanFLine(line, srcfile, md, ml, pr) ==
  LET linelist == Split(line)
      isModule == Len(linelist) > 0 /\ Upper(linelist[1]) = KwModule
      isUse == Len(linelist) > 0 /\ Upper(linelist[1]) = KwUse
  IN  IF (isModule \/ isUse) /\ Len(linelist) < 2
      THEN \* linelist[1] of lines 105, 108: IndexError
           ScanResult(md, ml, pr, TRUE)
      ELSE
        LET used == Upper(BeforeComma(linelist[2]))
        IN  ScanResult(
              IF isModule THEN Register(md, Upper(linelist[2]), srcfile) ELSE md,
              IF isUse /\ ~Contains(ml, used) THEN Append(ml, used) ELSE ml,
              IF isModule THEN pr \cup {Upper(linelist[2])} ELSE pr,
              FALSE)

\* lines 179-191: one line of a C/C++ file
ScanCLine(line, srcfile, md, ml, pr) ==
  LET linelist == Split(line)
      isInclude == Len(linelist) > 0 /\ Upper(linelist[1]) = KwInclude
  IN  IF isInclude /\ Len(linelist) < 2
      THEN \* linelist[1] of line 183: IndexError
           ScanResult(md, ml, pr, TRUE)
      ELSE
        LET modulename == Upper(StripDelims(linelist[2]))
            own == isInclude /\ IsOwnHeader(modulename, srcfile)
        IN  ScanResult(
              IF own THEN Register(md, modulename, srcfile) ELSE md,
              IF isInclude /\ ~Contains(ml, modulename)
              THEN Append(ml, modulename)
              ELSE ml,
              IF own THEN pr \cup {modulename} ELSE pr,
              FALSE)

ScanLineOf(d, line, srcfile, md, ml, pr) ==
  IF d = "f"
  THEN ScanFLine(line, srcfile, md, ml, pr)
  ELSE ScanCLine(line, srcfile, md, ml, pr)

\* lines 125, 206
IsOtherFile(mlocation, srcfile) == mlocation /= srcfile

\* lines 122-127, 203-208: the dependencies of the Node of srcfile after the
\* required symbols (its modulelist) from the k-th on
RECURSIVE LinkFrom(_, _, _, _)
LinkFrom(required, k, srcfile, deps) ==
  IF k > Len(required)
  THEN deps
  ELSE
    LET m == required[k]
    IN  IF m \in DOMAIN module_dict /\ IsOtherFile(module_dict[m], srcfile)
        THEN LinkFrom(required, k + 1, srcfile,
                      add_dependency(deps, nodedict[module_dict[m]]))
        ELSE LinkFrom(required, k + 1, srcfile, deps)

\* order_source_files(srcfiles) or order_c_source_files(srcfiles) is called
Init ==
  /\ pc = "scan"
  /\ dialect \in {"f", "c"}
  /\ srcfiles \in SeqsUpTo(IF dialect = "f" THEN FPaths ELSE CPaths, MaxFiles)
  /\ nodelist = <<>>
  /\ dependencies = <<>>
  /\ module_dict = EmptyMap
  /\ sourcefile_module_dict = EmptyMap
  /\ nodedict = EmptyMap
  /\ provided = <<>>
  /\ modulelist = <<>>
  /\ lineno = 0
  /\ linked = 0
  /\ l = <<>>
  /\ s = {}
  /\ error = ""
  /\ osrcfiles = <<>>
  /\ calls = 0
  /\ deps0 = <<>>
  /\ pops = 0

\* lines 86-95, 164-173: the file of this iteration cannot be opened
ScanUnopenable ==
  /\ pc = "scan"
  /\ Len(nodelist) < Len(srcfiles)
  /\ LET srcfile == srcfiles[Len(nodelist) + 1]
     IN  /\ nodelist' = Append(nodelist, srcfile)
         /\ dependencies' = Append(dependencies, <<>>)
         /\ nodedict' = Put(nodedict, srcfile, Len(nodelist) + 1)
         /\ sourcefile_module_dict' = Put(sourcefile_module_dict, srcfile, <<>>)
         /\ provided' = Append(provided, {})
  /\ UNCHANGED <<pc, dialect, srcfiles, module_dict, modulelist, lineno, linked,
                 sortVars, error, osrcfiles>>

\* lines 86-99, 164-177: the file of this iteration opens and is read
OpenFile ==
  /\ pc = "scan"
  /\ Len(nodelist) < Len(srcfiles)
  /\ LET srcfile == srcfiles[Len(nodelist) + 1]
     IN  /\ nodelist' = Append(nodelist, srcfile)
         /\ dependencies' = Append(dependencies, <<>>)
         /\ nodedict' = Put(nodedict, srcfile, Len(nodelist) + 1)
         /\ provided' = Append(provided, {})
  /\ modulelist' = <<>>
  /\ lineno' = 0
  /\ pc' = "lines"
  /\ UNCHANGED <<dialect, srcfiles, module_dict, sourcefile_module_dict, linked,
                 sortVars, error, osrcfiles>>

\* lines 100-110, 178-191: one iteration of the loop over the lines
ScanLine ==
  /\ pc = "lines"
  /\ lineno < MaxLines
  /\ \E line \in Lines(dialect) :
     \E r \in {ScanLineOf(dialect, line, nodelist[Len(nodelist)], module_dict,
                          modulelist, provided[Len(nodelist)])} :
       /\ module_dict' = r.module_dict
       /\ modulelist' = r.modulelist
       /\ provided' = [provided EXCEPT ![Len(nodelist)] = r.provided]
       /\ IF r.raised
          THEN pc' = "raised" /\ error' = IndexError
          ELSE UNCHANGED <<pc, error>>
  /\ lineno' = lineno + 1
  /\ UNCHANGED <<dialect, srcfiles, nodelist, dependencies,
                 sourcefile_module_dict, nodedict, linked, sortVars, osrcfiles>>

\* lines 100, 112-114, 192-195: the lines are over, the file is closed
CloseFile ==
  /\ pc = "lines"
  /\ sourcefile_module_dict' =
       Put(sourcefile_module_dict, nodelist[Len(nodelist)], modulelist)
  /\ modulelist' = <<>>
  /\ lineno' = 0
  /\ pc' = "scan"
  /\ UNCHANGED <<dialect, srcfiles, nodelist, dependencies, module_dict,
                 nodedict, provided, linked, sortVars, error, osrcfiles>>

\* lines 86, 118: the first loop is over
ScanDone ==
  /\ pc = "scan"
  /\ Len(nodelist) = Len(srcfiles)
  /\ pc' = "link"
  /\ UNCHANGED <<dialect, srcfiles, nodelist, dependencies, builderVars, sortVars,
                 error, osrcfiles>>

\* lines 118-129, 199-210: one iteration of the second loop
Link ==
  /\ pc = "link"
  /\ linked < Len(nodelist)
  /\ LET node == linked + 1
         srcfile == nodelist[node]
     IN  dependencies' =
           [dependencies EXCEPT ![node] =
              LinkFrom(sourcefile_module_dict[srcfile], 1, srcfile, @)]
  /\ linked' = linked + 1
  /\ UNCHANGED <<pc, dialect, srcfiles, nodelist, module_dict,
                 sourcefile_module_dict, nodedict, provided, modulelist, lineno,
                 sortVars, error, osrcfiles>>

\* lines 131, 146-148, 212-213: the nodelist is returned and made a dag
LinkDone ==
  /\ pc = "link"
  /\ linked = Len(nodelist)
  /\ pc' = "sort"
  /\ UNCHANGED <<dialect, srcfiles, nodelist, dependencies, builderVars, sortVars,
                 error, osrcfiles>>

\* lines 149-152, 214-217: the names of the ordered Nodes
OrderNames ==
  /\ pc = "returned"
  /\ dialect \in {"f", "c"}
  /\ osrcfiles' = [k \in DOMAIN l |-> nodelist[l[k]]]
  /\ pc' = "ordered"
  /\ UNCHANGED <<dialect, srcfiles, nodelist, dependencies, builderVars, sortVars,
                 error>>

Next ==
  \/ ScanUnopenable
  \/ OpenFile
  \/ ScanLine
  \/ CloseFile
  \/ ScanDone
  \/ Link
  \/ LinkDone
  \/ ToposortBegin
  \/ ToposortPop
  \/ ToposortEnd
  \/ OrderNames

Spec == Init /\ [][Next]_vars

\* ----------------------------------------------------------------- claims
\* a toposort call has ended, by return or by exception
Ended == calls > 0 /\ pc \in {"returned", "raised", "ordered"}

Injective(q) == \A i, j \in DOMAIN q : q[i] = q[j] => i = j

\* the Nodes reachable from S over one or more dependency edges
RECURSIVE Closure(_, _)
Closure(deps, S) ==
  LET T == S \cup UNION {Range(deps[m]) : m \in S}
  IN  IF T = S THEN S ELSE Closure(deps, T)

HasCycle(deps) == \E n \in DOMAIN deps : n \in Closure(deps, Range(deps[n]))

\* C1: whenever toposort returns, the returned list holds every Node of the
\* nodelist exactly once.
C1_Permutation ==
  pc = "returned" =>
    /\ Len(l) = Cardinality(Nodes)
    /\ \A n \in Nodes : Cardinality({i \in DOMAIN l : l[i] = n}) = 1

\* C2: whenever toposort returns, for every edge (a depends on b) of the graph
\* it was called on, b stands in the returned list before a.
C2_EdgePrecedence ==
  pc = "returned" =>
    \A a \in Nodes : \A b \in Range(deps0[a]) :
      \E i, j \in DOMAIN l : l[i] = a /\ l[j] = b /\ j < i

\* C3: on a graph with a zero-dependency Node and a cycle, toposort ends with
\* the cycle error and returns nothing.
C3_RootAndCycleRaises ==
  (Ended /\ Roots(deps0) /= {} /\ HasCycle(deps0)) =>
    (pc = "raised" /\ error = CycleError)

\* deps is a depends on b, b depends on c, c depends on a over three Nodes
IsThreeCycle(deps) ==
  /\ DOMAIN deps = 1..3
  /\ \E a, b, c \in 1..3 :
       /\ {a, b, c} = 1..3
       /\ deps[a] = <<b>> /\ deps[b] = <<c>> /\ deps[c] = <<a>>

\* C4 as stated: toposort on the three-Node cycle raises the cycle error.
C4_ThreeCycleRaisesCycleError ==
  (Ended /\ IsThreeCycle(deps0)) => (pc = "raised" /\ error = CycleError)

\* C4 as amended: toposort on the three-Node cycle raises the no-roots error,
\* which is another error than the cycle error, and returns no order.
C4_ThreeCycleRaisesNoRoots ==
  (Ended /\ IsThreeCycle(deps0)) =>
    /\ pc = "raised"
    /\ error = NoRootsError
    /\ error /= CycleError
    /\ l = <<>>

\* C4: toposort has been called on the three-Node cycle and has raised
C4_Witness == Ended /\ IsThreeCycle(deps0) /\ pc = "raised"

\* C5: toposort raises the no-roots error exactly when the nodelist is not
\* empty and every Node has a dependency; on the empty nodelist it returns the
\* empty order.
C5_NoRootsIffNonEmpty ==
  Ended =>
    /\ (error = NoRootsError) <=>
         (Nodes /= {} /\ \A n \in Nodes : Len(deps0[n]) > 0)
    /\ Nodes = {} => (pc \in {"returned", "ordered"} /\ l = <<>>)

\* C6 as stated: after toposort returns or raises, every Node's dependencies
\* are what they were before the call.
C6_DependenciesUntouched == Ended => dependencies = deps0

\* C6 as amended: toposort consumes the Nodes' own lists: after it returns or
\* raises, every Node's dependencies are what they were before the call less
\* the Nodes of the output, and those of an output Node are empty.
C6_ConsumedInPlace ==
  Ended =>
    /\ \A m \in Nodes :
         dependencies[m] = SelectSeq(deps0[m], LAMBDA d : d \notin Range(l))
    /\ \A n \in Range(l) : dependencies[n] = <<>>

\* C6: a first toposort has returned and has emptied a list that held edges
C6_Witness ==
  /\ Ended
  /\ pc = "returned"
  /\ calls = 1
  /\ \E m \in Nodes : deps0[m] /= <<>> /\ dependencies[m] = <<>>

\* some scanned file registered symbol m
HasProvider(m) == \E p \in DOMAIN provided : m \in provided[p]

\* the last file in input order that registered symbol m
LastProvider(m) == srcfiles[Max({p \in DOMAIN provided : m \in provided[p]})]

\* the files the Node of srcfiles[i] is to depend on
ExpectedFiles(i) ==
  {B \in Range(srcfiles) :
     /\ B /= srcfiles[i]
     /\ \E m \in Range(sourcefile_module_dict[srcfiles[i]]) :
          HasProvider(m) /\ LastProvider(m) = B}

\* C7: once the second loop has gone through a Node, the Node of file A
\* depends on the Node of file B iff A requires a symbol whose last provider
\* in input order is B and B is not A; no Node depends on itself.
C7_EdgesIffLastProvider ==
  pc \in {"link", "sort"} =>
    \A i \in Nodes :
      IF i <= linked
      THEN /\ {nodelist[j] : j \in Range(dependencies[i])} = ExpectedFiles(i)
           /\ \A j \in Range(dependencies[i]) :
                j /= i /\ j = nodedict[nodelist[j]]
           /\ Injective(dependencies[i])
      ELSE dependencies[i] = <<>>

\* C7: the first file requires a symbol that both files provide and depends
\* on the second one
C7_Witness ==
  /\ pc = "sort"
  /\ linked = 2
  /\ Contains(dependencies[1], 2)
  /\ provided[1] \cap provided[2] /= {}
  /\ sourcefile_module_dict[srcfiles[1]] /= <<>>

\* C8: a run ends by returning an order or by the no-roots or the cycle
\* error, whatever the files hold.
C8_OnlyTwoFatalErrors == error \in {"", NoRootsError, CycleError}

\* C9: the main loop removes from the frontier at most as many times as there
\* are Nodes: no Node is output twice, no output Node is in the frontier
\* again, and in every state of the loop its next step can be taken.
C9_AtMostNRemovals ==
  /\ pops <= Cardinality(Nodes)
  /\ pc = "loop" =>
       /\ pops = Len(l)
       /\ Injective(l)
       /\ s \cap Range(l) = {}
       /\ Len(l) + Cardinality(s) <= Cardinality(Nodes)
       /\ ENABLED (ToposortPop \/ ToposortEnd)

\* C9: the loop has ended on a graph with a cycle, after at least one removal
C9_Witness ==
  /\ Ended
  /\ HasCycle(deps0)
  /\ pops > 0
  /\ pops < Cardinality(Nodes)

\* m, less directory and extension, is the name of file f less directory and
\* extension, whatever the case
SameBaseName(m, f) ==
  Upper(SplitextRoot(Basename(m))) = Upper(SplitextRoot(Basename(f)))

\* C10: in the include dialect a file that includes a name whose base name
\* without extension is its own is registered as a provider of that name, and
\* every other file that includes the name depends on its provider.
C10_OwnHeaderRegistered ==
  dialect = "c" =>
    \A f \in DOMAIN sourcefile_module_dict :
      \A m \in Range(sourcefile_module_dict[f]) :
        SameBaseName(m, f) =>
          /\ m \in DOMAIN module_dict
          /\ pc = "sort" =>
               \A i \in Nodes :
                 (nodelist[i] /= module_dict[m]
                    /\ Contains(sourcefile_module_dict[nodelist[i]], m)) =>
                   Contains(dependencies[i], nodedict[module_dict[m]])
====
